---- MODULE Spec2Model ----
(***************************************************************************)
(* Immutable-Ledger-Visualizer (src/script.js): the ledger engine (Block,  *)
(* Blockchain) and the page's event handlers that drive it.                *)
(*                                                                         *)
(* Granularity.  Every function of script.js is async, but the only await  *)
(* that really suspends is crypto.subtle.digest inside sha256: all other   *)
(* awaits wait for a promise of script.js itself and continue in the same  *)
(* microtask checkpoint.  One action of this model is therefore either an  *)
(* event handler from its start to its first pending digest, or the        *)
(* resolution of one pending digest together with every continuation that  *)
(* runs until the next digest is requested.                                *)
(*                                                                         *)
(* Strings are sequences of tokens (a token stands for one character or    *)
(* for a run of characters that is never split); JS string concatenation   *)
(* is \o.  Array positions are 0-based in the source and in the model's    *)
(* records (index, i, idx); At(ch, i) reads the 0-based position.          *)
(***************************************************************************)
EXTENDS Naturals, Sequences, FiniteSets, Bags

VARIABLES
    chain,           \* ledger.chain
    difficulty,      \* ledger.difficulty
    genesisPc,       \* window.onload: "init" (not fired), "mining", "done"
    genesis,         \* createGenesisBlock's local block, << >> when there is none
    addPc,           \* the add-block click handler: "idle", "mining", "threw"
    newBlock,        \* the click handler's local block, << >> when there is none
    addBtnDisabled,  \* addBtn.disabled
    sweeps,          \* the isChainValid calls that wait for a digest (a bag)
    container,       \* the children of #blockchain-container, in order
    sealed,          \* history: every block as it was when it was pushed
    returned,        \* history: what isChainValid returned in the last step
    latest,          \* history: how getLatestBlock ended in the last step
    uncaught,        \* history: the error the click handler's promise rejected with
    overwrites,      \* history: writes to previousHash / hash from outside
    miner            \* a mineBlock call made on its own, << >> when there is none

vars == << chain, difficulty, genesisPc, genesis, addPc, newBlock,
           addBtnDisabled, sweeps, container, sealed, returned, latest,
           uncaught, overwrites, miner >>

\* ---------------------------------------------------------------- bounds

\* Longest chain the model builds (genesis included).
MaxChain == 3
\* Most isChainValid sweeps that wait for a digest at the same time.
MaxSweeps == 2
\* Most writes to a block's previousHash or hash from outside the page.
MaxOverwrites == 2
\* Highest nonce a mineBlock call made on its own is followed to.
MaxNonce == 201

\* new Date().toISOString(): the clock's readings, one token each.
Timestamps == { <<"T1">> }
\* `Transaction ${Math.floor(Math.random() * 9000 + 1000)}`
Transactions == { <<"Transaction 1000">> }
\* What the user types into a card's input.
Typed == { <<"x">>, <<"Transaction 1000">> }
\* Values written over previousHash / hash from outside the page's handlers.
Bogus == { <<"b", "0", "9", "u", "s">> }

\* ---------------------------------------------------------------- strings

At(ch, i) == ch[i + 1]

Digit(d) == CASE d = 0 -> "0" [] d = 1 -> "1" [] d = 2 -> "2" [] d = 3 -> "3"
              [] d = 4 -> "4" [] d = 5 -> "5" [] d = 6 -> "6" [] d = 7 -> "7"
              [] d = 8 -> "8" [] d = 9 -> "9"

\* Number -> string, as `+` does when the other operand is a string.
RECURSIVE NumberToString(_)
NumberToString(n) ==
    IF n < 10 THEN << Digit(n) >>
    ELSE NumberToString(n \div 10) \o << Digit(n % 10) >>

\* JSON.stringify of a string: quoted, with quote and backslash escaped.
RECURSIVE JSONescape(_)
JSONescape(s) ==
    IF s = << >> THEN << >>
    ELSE LET c == Head(s) IN
         (IF c = "\"" THEN << "\\", "\"" >>
          ELSE IF c = "\\" THEN << "\\", "\\" >>
          ELSE << c >>) \o JSONescape(Tail(s))

JSONstringify(s) == << "\"" >> \o JSONescape(s) \o << "\"" >>

\* Array(n + 1).join("0"): n characters '0'.
Zeros(n) == [ j \in 1..n |-> "0" ]

\* String.prototype.substring(0, n)
Substring0(s, n) == SubSeq(s, 1, IF n < Len(s) THEN n ELSE Len(s))

\* ---------------------------------------------------------------- sha256

\* A token's weight in the stand-in digest below.
TokenCode(t) ==
    CASE t = "0" -> 0 [] t = "1" -> 1 [] t = "2" -> 2 [] t = "3" -> 3
      [] t = "4" -> 4 [] t = "5" -> 5 [] t = "6" -> 6 [] t = "7" -> 7
      [] t = "8" -> 8 [] t = "9" -> 9
      [] t = "T1" -> 1 [] t = "T2" -> 2
      [] t = "Genesis Block" -> 1
      [] t = "Transaction 1000" -> 2
      [] t = "x" -> 1
      [] t = "\"" -> 0
      [] OTHER -> 1

RECURSIVE TokenSum(_)
TokenSum(s) == IF s = << >> THEN 0 ELSE TokenCode(Head(s)) + TokenSum(Tail(s))

\* The first four hex digits of the digest, decided by the message alone.
DigestPrefix(message) ==
    LET c == TokenSum(message) % 3 IN
    CASE c = 0 -> << "0", "0", "0", "0" >>
      [] c = 1 -> << "0", "0", "0", "c" >>
      [] c = 2 -> << "5", "e", "0", "0" >>

\* SHA-256 as a deterministic, collision-free function to hex strings: the
\* digest is a message-decided prefix followed by the message itself, so two
\* messages have the same digest only if they are the same message.  One
\* message in three has a digest that starts with "0000".
sha256(message) == DigestPrefix(message) \o message

\* ---------------------------------------------------------------- Block

\* constructor(index, timestamp, data, previousHash = '')
Block(index, timestamp, data, previousHash) ==
    [ index |-> index, timestamp |-> timestamp, data |-> data,
      previousHash |-> previousHash, nonce |-> 0, hash |-> << >> ]

\* calculateHash with previousHash left out of the hashed string.
HashInput_NoPreviousHash(b) ==
    NumberToString(b.index) \o b.timestamp
        \o JSONstringify(b.data) \o NumberToString(b.nonce)

\* The argument calculateHash hands to sha256, read from the block's fields at
\* the moment of the call.
HashInput(b) ==
    NumberToString(b.index) \o b.previousHash \o b.timestamp
        \o JSONstringify(b.data) \o NumberToString(b.nonce)

calculateHash(b) == sha256(HashInput(b))

\* The target test one character short.
MeetsTarget_OneShort(hash, d) == Substring0(hash, d - 1) = Zeros(d - 1)

\* this.hash.substring(0, difficulty) === target
MeetsTarget(hash, d) == Substring0(hash, d) = Zeros(d)

\* mineBlock raising the nonce by two after a failed candidate.
mineBlockResume_NonceByTwo(b, d) ==
    LET h == calculateHash(b) IN
    IF MeetsTarget(h, d)
    THEN [ sealed |-> TRUE,  block |-> [ b EXCEPT !.hash = h ] ]
    ELSE [ sealed |-> FALSE, block |-> [ b EXCEPT !.hash = h, !.nonce = @ + 2 ] ]

\* mineBlock with `this.nonce++` moved in front of the target test: the nonce
\* of a sealed block is one more than the nonce its hash was computed from.
mineBlockResume_NonceBeforeTest(b, d) ==
    LET h == calculateHash(b) IN
    [ sealed |-> MeetsTarget(h, d),
      block |-> [ b EXCEPT !.hash = h, !.nonce = @ + 1 ] ]

\* mineBlock without its loop: the first candidate is kept whatever it is.
mineBlockResume_NoLoop(b, d) ==
    [ sealed |-> TRUE, block |-> [ b EXCEPT !.hash = calculateHash(b) ] ]

\* One pass of mineBlock's loop body, from the digest of the block's fields
\* coming back to the next digest being requested (sealed = FALSE) or to the
\* break (sealed = TRUE).  No caller of script.js passes onIteration.
mineBlockResume(b, d) ==
    LET h == calculateHash(b) IN
    IF MeetsTarget(h, d)
    THEN [ sealed |-> TRUE,  block |-> [ b EXCEPT !.hash = h ] ]
    ELSE [ sealed |-> FALSE, block |-> [ b EXCEPT !.hash = h, !.nonce = @ + 1 ] ]

\* onIteration called after every failed candidate.
onIterationCalls_EveryPass(b, onIteration) ==
    IF onIteration THEN << [ nonce |-> b.nonce, hash |-> b.hash ] >> ELSE << >>

\* The end of mineBlock's loop body, after this.nonce++: the calls of
\* onIteration it makes, with their arguments.  onIteration is TRUE when a
\* callback was passed and FALSE when the argument is undefined.
onIterationCalls(b, onIteration) ==
    IF b.nonce % 100 = 0 /\ onIteration
    THEN << [ nonce |-> b.nonce, hash |-> b.hash ] >>
    ELSE << >>

\* ---------------------------------------------------------------- Blockchain

\* undefined is << >>, a block b is << b >>.
Undefined == << >>

\* How a call ended: it returned a value or it threw an error.
Return(value) == [ completion |-> "return", value |-> value ]
Throw(error)  == [ completion |-> "throw", error |-> error ]

\* return this.chain[this.chain.length - 1]: reading position -1 of an empty
\* array gives undefined, it does not throw.
getLatestBlock(ch) ==
    IF Len(ch) = 0 THEN Return(Undefined) ELSE Return(<< ch[Len(ch)] >>)

\* addBlock reading the hash with `?.`: on an empty chain previousHash becomes
\* undefined and mineBlock starts.
addBlockStart_OptionalChaining(ch, b) ==
    LET l == getLatestBlock(ch) IN
    IF l.value = Undefined
    THEN Return([ b EXCEPT !.previousHash = << "undefined" >> ])
    ELSE Return([ b EXCEPT !.previousHash = l.value[1].hash ])

\* addBlock without the assignment of previousHash: the block keeps the ''
\* of its constructor.
addBlockStart_NoLink(ch, b) ==
    LET l == getLatestBlock(ch) IN
    IF l.value = Undefined THEN Throw("TypeError") ELSE Return(b)

\* addBlock up to its await: newBlock.previousHash = this.getLatestBlock().hash
\* throws a TypeError when getLatestBlock() is undefined; otherwise the block
\* has its previousHash and mineBlock is under way.
addBlockStart(ch, b) ==
    LET l == getLatestBlock(ch) IN
    IF l.value = Undefined
    THEN Throw("TypeError")
    ELSE Return([ b EXCEPT !.previousHash = l.value[1].hash ])

TAMPERED_DATA(i) == [ valid |-> FALSE, index |-> i, reason |-> "TAMPERED_DATA" ]
BROKEN_LINK(i)   == [ valid |-> FALSE, index |-> i, reason |-> "BROKEN_LINK" ]
VALID            == [ valid |-> TRUE ]

\* isChainValid at its loop test with counter i: either it requests the digest
\* of block i's fields and waits, or it returns {valid: true}.
isChainValidLoop(ch, i) ==
    IF i < Len(ch)
    THEN [ done |-> FALSE, i |-> i, input |-> HashInput(At(ch, i)) ]
    ELSE [ done |-> TRUE, verdict |-> VALID ]

\* The sweep started at the genesis block.
isChainValidStart_FromZero(ch) == isChainValidLoop(ch, 0)

\* The sweep of the newest block alone.
isChainValidStart_FromLast(ch) ==
    isChainValidLoop(ch, IF Len(ch) > 1 THEN Len(ch) - 1 ELSE 1)

\* for (let i = 1; ...
isChainValidStart(ch) == isChainValidLoop(ch, 1)

\* The loop body with its two checks in the other order.
isChainValidResume_LinkFirst(ch, i, recalculatedHash) ==
    IF At(ch, i).previousHash # At(ch, i - 1).hash
    THEN [ done |-> TRUE, verdict |-> BROKEN_LINK(i) ]
    ELSE IF At(ch, i).hash # recalculatedHash
    THEN [ done |-> TRUE, verdict |-> TAMPERED_DATA(i) ]
    ELSE isChainValidLoop(ch, i + 1)

\* isChainValid without its first check: only the link is compared.
isChainValidResume_LinkOnly(ch, i, recalculatedHash) ==
    IF At(ch, i).previousHash # At(ch, i - 1).hash
    THEN [ done |-> TRUE, verdict |-> BROKEN_LINK(i) ]
    ELSE isChainValidLoop(ch, i + 1)

\* isChainValid when the digest requested for block i comes back: the two
\* checks of the loop body on the chain as it is now, then the loop test.
isChainValidResume(ch, i, recalculatedHash) ==
    IF At(ch, i).hash # recalculatedHash
    THEN [ done |-> TRUE, verdict |-> TAMPERED_DATA(i) ]
    ELSE IF At(ch, i).previousHash # At(ch, i - 1).hash
    THEN [ done |-> TRUE, verdict |-> BROKEN_LINK(i) ]
    ELSE isChainValidLoop(ch, i + 1)

\* ---------------------------------------------------------------- page

\* The elements of #blockchain-container.
BlockCard(idx, statusClass) ==
    [ className |-> "block-card", idx |-> idx, statusClass |-> statusClass ]
ChainLink  == [ className |-> "chain-link" ]
MiningCard == [ className |-> "block-card mining" ]

\* renderChain's forEach: one card per block, 'invalid' from the verdict's
\* index on, and a link after every card but the last.
RECURSIVE drawCards(_, _, _)
drawCards(ch, validationStatus, idx) ==
    IF idx >= Len(ch) THEN << >>
    ELSE LET statusClass ==
                 IF ~validationStatus.valid /\ idx >= validationStatus.index
                 THEN "invalid" ELSE "valid"
         IN  << BlockCard(idx, statusClass) >>
             \o (IF idx < Len(ch) - 1 THEN << ChainLink >> ELSE << >>)
             \o drawCards(ch, validationStatus, idx + 1)

\* ---------------------------------------------------------------- renderChain

\* An isChainValid call can start: it returns at once (a chain of at most one
\* block) or there is room for one more waiting sweep.
CanSweep(ch, sw) == isChainValidStart(ch).done \/ BagCardinality(sw) < MaxSweeps

Returned(verdict, caller, dirty) ==
    << [ verdict |-> verdict, caller |-> caller, dirty |-> dirty ] >>

Awaiting(r, caller) ==
    [ caller |-> caller, i |-> r.i, input |-> r.input, dirty |-> FALSE ]

\* history: a block field was written while these sweeps were under way.
RECURSIVE MarkDirty(_)
MarkDirty(sw) ==
    IF sw = EmptyBag THEN EmptyBag
    ELSE LET w == CHOOSE x \in BagToSet(sw) : TRUE IN
         SetToBag({ [ w EXCEPT !.dirty = TRUE ] })
             (+) MarkDirty(sw (-) SetToBag({ w }))

\* renderChain() up to its first pending digest: the container is emptied and
\* isChainValid starts; when isChainValid returns at once the cards are drawn
\* in the same step.
renderChain(ch, sw) ==
    LET r == isChainValidStart(ch) IN
    IF r.done
    THEN [ sweeps |-> sw,
           container |-> drawCards(ch, r.verdict, 0),
           returned |-> Returned(r.verdict, "renderChain", FALSE) ]
    ELSE [ sweeps |-> sw (+) SetToBag({ Awaiting(r, "renderChain") }),
           container |-> << >>,
           returned |-> << >> ]

\* ---------------------------------------------------------------- actions

\* const ledger = new Blockchain(); the page as loaded, before window.onload.
Init ==
    /\ chain = << >>
    /\ difficulty = 4
    /\ genesisPc = "init"
    /\ genesis = << >>
    /\ addPc = "idle"
    /\ newBlock = << >>
    /\ addBtnDisabled = FALSE
    /\ sweeps = EmptyBag
    /\ container = << >>
    /\ sealed = << >>
    /\ returned = << >>
    /\ latest = << >>
    /\ uncaught = << >>
    /\ overwrites = 0
    /\ miner = << >>

\* window.onload up to the first digest of createGenesisBlock.
OnLoad ==
    /\ genesisPc = "init"
    /\ \E ts \in Timestamps :
         genesis' = << Block(0, ts, << "Genesis Block" >>, << "0" >>) >>
    /\ genesisPc' = "mining"
    /\ returned' = << >>
    /\ latest' = << >>
    /\ UNCHANGED << chain, difficulty, addPc, newBlock, addBtnDisabled, sweeps,
                    container, sealed, uncaught, overwrites, miner >>

\* A digest of the genesis block comes back: mineBlock goes on, or it ends and
\* createGenesisBlock pushes the block and window.onload calls renderChain.
GenesisDigest ==
    /\ genesisPc = "mining"
    /\ LET m == mineBlockResume(genesis[1], difficulty) IN
       IF ~m.sealed
       THEN /\ genesis' = << m.block >>
            /\ returned' = << >>
            /\ UNCHANGED << chain, genesisPc, sweeps, container, sealed >>
       ELSE /\ CanSweep(Append(chain, m.block), sweeps)
            /\ chain' = Append(chain, m.block)
            /\ sealed' = Append(sealed, m.block)
            /\ genesis' = << >>
            /\ genesisPc' = "done"
            /\ LET rc == renderChain(chain', sweeps) IN
               /\ sweeps' = rc.sweeps
               /\ container' = rc.container
               /\ returned' = rc.returned
    /\ latest' = << >>
    /\ UNCHANGED << difficulty, addPc, newBlock, addBtnDisabled,
                    uncaught, overwrites, miner >>

\* The click handler counting blocks from 1.
clickNewBlock_FromOne(ch, ts, data) == Block(Len(ch) + 1, ts, data, << >>)

\* const index = ledger.chain.length; ... new Block(index, ts, data)
clickNewBlock(ch, ts, data) == Block(Len(ch), ts, data, << >>)

\* A click on addBtn (a disabled button gets no click), up to the first digest
\* of addBlock, or to the TypeError of `this.getLatestBlock().hash` when
\* getLatestBlock returned undefined: the handler's promise rejects and none of
\* its remaining statements run.
AddClick ==
    /\ ~addBtnDisabled
    /\ Len(chain) < MaxChain
    /\ \E ts \in Timestamps, data \in Transactions :
         LET b == clickNewBlock(chain, ts, data)
             a == addBlockStart(chain, b)
         IN  /\ latest' = << getLatestBlock(chain) >>
             /\ IF a.completion = "throw"
                THEN /\ addPc' = "threw"
                     /\ uncaught' = << a.error >>
                     /\ newBlock' = << b >>
                ELSE /\ addPc' = "mining"
                     /\ uncaught' = uncaught
                     /\ newBlock' = << a.value >>
    /\ addBtnDisabled' = TRUE
    /\ container' = Append(container, MiningCard)
    /\ returned' = << >>
    /\ UNCHANGED << chain, difficulty, genesisPc, genesis, sweeps, sealed,
                    overwrites, miner >>

\* A digest of the new block comes back: mineBlock goes on, or it ends and
\* addBlock pushes the block and the click handler calls renderChain and
\* enables the button.
AddDigest ==
    /\ addPc = "mining"
    /\ LET m == mineBlockResume(newBlock[1], difficulty) IN
       IF ~m.sealed
       THEN /\ newBlock' = << m.block >>
            /\ returned' = << >>
            /\ UNCHANGED << chain, addPc, addBtnDisabled, sweeps, container,
                            sealed >>
       ELSE /\ CanSweep(Append(chain, m.block), sweeps)
            /\ chain' = Append(chain, m.block)
            /\ sealed' = Append(sealed, m.block)
            /\ newBlock' = << >>
            /\ addPc' = "idle"
            /\ addBtnDisabled' = FALSE
            /\ LET rc == renderChain(chain', sweeps) IN
               /\ sweeps' = rc.sweeps
               /\ container' = rc.container
               /\ returned' = rc.returned
    /\ latest' = << >>
    /\ UNCHANGED << difficulty, genesisPc, genesis, uncaught, overwrites, miner >>

\* A click on validateBtn, up to the first digest of isChainValid; when
\* isChainValid returns at once the handler goes on to renderChain.
ValidateClick ==
    /\ CanSweep(chain, sweeps)
    /\ LET r == isChainValidStart(chain) IN
       IF r.done
       THEN LET rc == renderChain(chain, sweeps) IN
            /\ sweeps' = rc.sweeps
            /\ container' = rc.container
            /\ returned' = Returned(r.verdict, "validateBtn", FALSE)
       ELSE /\ sweeps' = sweeps (+) SetToBag({ Awaiting(r, "validateBtn") })
            /\ returned' = << >>
            /\ UNCHANGED container
    /\ latest' = << >>
    /\ UNCHANGED << chain, difficulty, genesisPc, genesis, addPc, newBlock,
                    addBtnDisabled, sealed, uncaught, overwrites, miner >>

\* The digest a waiting isChainValid asked for comes back.  When the sweep
\* returns, its caller goes on: renderChain draws the cards after whatever the
\* container holds; the validate handler calls renderChain.
SweepDigest(sw) ==
    /\ BagIn(sw, sweeps)
    /\ LET rest == sweeps (-) SetToBag({ sw })
           r    == isChainValidResume(chain, sw.i, sha256(sw.input))
       IN  IF ~r.done
           THEN /\ sweeps' = rest (+) SetToBag({ [ sw EXCEPT !.i = r.i,
                                                         !.input = r.input ] })
                /\ returned' = << >>
                /\ UNCHANGED container
           ELSE /\ returned' = Returned(r.verdict, sw.caller, sw.dirty)
                /\ IF sw.caller = "renderChain"
                   THEN /\ sweeps' = rest
                        /\ container' = container \o drawCards(chain, r.verdict, 0)
                   ELSE LET rc == renderChain(chain, rest)
                        IN  /\ sweeps' = rc.sweeps
                            /\ container' = rc.container
    /\ latest' = << >>
    /\ UNCHANGED << chain, difficulty, genesisPc, genesis, addPc, newBlock,
                    addBtnDisabled, sealed, uncaught, overwrites, miner >>

\* The positions of the chain: 0 .. chain.length - 1.
Positions == { k \in 0..(MaxChain - 1) : k < Len(chain) }

\* The inputs on the page: the idx of every block card in the container.
Inputs == { container[j].idx : j \in { n \in DOMAIN container :
                                       container[n].className = "block-card" } }

\* updateBlockData that seals the block again after the edit.
UpdateBlockData_Reseal(index, newVal) ==
    /\ index \in Inputs
    /\ CanSweep(chain, sweeps)
    /\ LET b == [ At(chain, index) EXCEPT !.data = newVal ] IN
       chain' = [ chain EXCEPT ![index + 1] =
                      [ b EXCEPT !.hash = calculateHash(b) ] ]
    /\ LET sw == IF chain' # chain THEN MarkDirty(sweeps) ELSE sweeps
           rc == renderChain(chain', sw)
       IN  /\ sweeps' = rc.sweeps
           /\ container' = rc.container
           /\ returned' = rc.returned
    /\ latest' = << >>
    /\ UNCHANGED << difficulty, genesisPc, genesis, addPc, newBlock,
                    addBtnDisabled, sealed, uncaught, overwrites, miner >>

\* oninput of a card's input: updateBlockData(idx, this.value).
UpdateBlockData(index, newVal) ==
    /\ index \in Inputs
    /\ CanSweep(chain, sweeps)
    /\ chain' = [ chain EXCEPT ![index + 1].data = newVal ]
    /\ LET sw == IF chain' # chain THEN MarkDirty(sweeps) ELSE sweeps
           rc == renderChain(chain', sw)
       IN  /\ sweeps' = rc.sweeps
           /\ container' = rc.container
           /\ returned' = rc.returned
    /\ latest' = << >>
    /\ UNCHANGED << difficulty, genesisPc, genesis, addPc, newBlock,
                    addBtnDisabled, sealed, uncaught, overwrites, miner >>

Next ==
    \/ OnLoad
    \/ GenesisDigest
    \/ AddClick
    \/ AddDigest
    \/ ValidateClick
    \/ \E sw \in BagToSet(sweeps) : SweepDigest(sw)
    \/ \E index \in Positions, newVal \in Typed :
         UpdateBlockData(index, newVal)

Spec == Init /\ [][Next]_vars

\* A digest that a waiting sweep asked for comes back: the browser resolves the
\* promise of crypto.subtle.digest, whatever else is pending.
SweepFairSpec ==
    Spec /\ WF_vars(\E sw \in BagToSet(sweeps) : SweepDigest(sw))

\* ---------------------------------------------------------------- mineBlock on its own

\* The arguments of a mineBlock call: the difficulty (ledger.difficulty is 4;
\* 0 and 1 are easier targets, 5 is a target that some blocks do not meet
\* within MaxNonce candidates) and the fields of the block.
Difficulties == { 0, 1, 4, 5 }
Mined ==
    { Block(index, ts, data, previousHash) :
        index \in { 0, 1 }, ts \in Timestamps,
        data \in { << "Genesis Block" >>, << "Transaction 1000" >> },
        previousHash \in { << "0" >>, << >> } }

\* block.mineBlock(difficulty, onIteration) is called on a new block, up to
\* its first digest.
MineInit ==
    /\ chain = << >>
    /\ difficulty = 4
    /\ genesisPc = "init"
    /\ genesis = << >>
    /\ addPc = "idle"
    /\ newBlock = << >>
    /\ addBtnDisabled = FALSE
    /\ sweeps = EmptyBag
    /\ container = << >>
    /\ sealed = << >>
    /\ returned = << >>
    /\ latest = << >>
    /\ uncaught = << >>
    /\ overwrites = 0
    /\ \E b \in Mined, d \in Difficulties, cb \in BOOLEAN :
         miner = << [ pc |-> "mining", block |-> b, difficulty |-> d,
                      onIteration |-> cb, candidates |-> 0, calls |-> << >> ] >>

\* A digest of the block comes back: one pass of mineBlock's loop body, with
\* the call of onIteration at its end.  candidates counts the digests that
\* came back, calls lists the calls of onIteration.
MineDigest ==
    /\ miner # << >>
    /\ miner[1].pc = "mining"
    /\ miner[1].block.nonce < MaxNonce
    /\ LET c == miner[1]
           m == mineBlockResume(c.block, c.difficulty)
       IN  miner' = << [ c EXCEPT
                 !.pc = IF m.sealed THEN "sealed" ELSE "mining",
                 !.block = m.block,
                 !.candidates = @ + 1,
                 !.calls = IF m.sealed THEN @
                           ELSE @ \o onIterationCalls(m.block, c.onIteration) ] >>
    /\ UNCHANGED << chain, difficulty, genesisPc, genesis, addPc, newBlock,
                    addBtnDisabled, sweeps, container, sealed, returned,
                    latest, uncaught, overwrites >>

MineNext == MineDigest

MineSpec == MineInit /\ [][MineNext]_vars

\* ---------------------------------------------------------------- writes from outside

\* The ledger is a global of the page and a block's fields are plain
\* properties: ledger.chain[k].previousHash = v, typed into the console, is a
\* write that no handler of the page makes.  Such writes are taken at moments
\* when no digest of a sweep or of addBlock is pending.
OverwriteIdle ==
    /\ overwrites < MaxOverwrites
    /\ sweeps = EmptyBag
    /\ addPc # "mining"

OverwriteData(k, v) ==
    /\ OverwriteIdle
    /\ v # At(chain, k).data
    /\ chain' = [ chain EXCEPT ![k + 1].data = v ]
    /\ overwrites' = overwrites + 1
    /\ returned' = << >>
    /\ latest' = << >>
    /\ UNCHANGED << difficulty, genesisPc, genesis, addPc, newBlock,
                    addBtnDisabled, sweeps, container, sealed, uncaught, miner >>

OverwritePreviousHash(k, v) ==
    /\ OverwriteIdle
    /\ v # At(chain, k).previousHash
    /\ chain' = [ chain EXCEPT ![k + 1].previousHash = v ]
    /\ overwrites' = overwrites + 1
    /\ returned' = << >>
    /\ latest' = << >>
    /\ UNCHANGED << difficulty, genesisPc, genesis, addPc, newBlock,
                    addBtnDisabled, sweeps, container, sealed, uncaught, miner >>

\* The value written to hash may be the hash recomputed from the block's
\* fields (ledger.chain[k].hash = await ledger.chain[k].calculateHash()).
OverwriteHash(k, v) ==
    /\ OverwriteIdle
    /\ v # At(chain, k).hash
    /\ chain' = [ chain EXCEPT ![k + 1].hash = v ]
    /\ overwrites' = overwrites + 1
    /\ returned' = << >>
    /\ latest' = << >>
    /\ UNCHANGED << difficulty, genesisPc, genesis, addPc, newBlock,
                    addBtnDisabled, sweeps, container, sealed, uncaught, miner >>

Overwrite ==
    \/ \E k \in Positions, v \in Typed : OverwriteData(k, v)
    \/ \E k \in Positions, v \in Bogus : OverwritePreviousHash(k, v)
    \/ \E k \in Positions :
         \E v \in Bogus \cup { calculateHash(At(chain, k)) } :
             OverwriteHash(k, v)

\* The load, add and validate handlers of the page, with writes from outside.
OverwriteNext ==
    \/ OnLoad
    \/ GenesisDigest
    \/ AddClick
    \/ AddDigest
    \/ ValidateClick
    \/ \E sw \in BagToSet(sweeps) : SweepDigest(sw)
    \/ Overwrite

OverwriteSpec == Init /\ [][OverwriteNext]_vars

\* ---------------------------------------------------------------- properties

\* isChainValid returned in the last step, and no block field was written
\* while it ran.
CleanReturn == returned # << >> /\ ~returned[1].dirty

\* All d first characters of h are '0' (counted, not compared as strings).
LeadingZeros(h, d) == \A j \in 1..d : j <= Len(h) /\ h[j] = "0"

\* Every block was mined on top of the hash its predecessor was pushed with:
\* no field of the tip had been written when addBlock read its hash.
BuiltOnSealed ==
    \A k \in Positions :
        k >= 1 => At(sealed, k).previousHash = At(sealed, k - 1).hash

\* The chain is as it was built: every block is as it was when pushed.
Untampered == BuiltOnSealed /\ chain = sealed

\* Block k's data, and nothing else in the chain, differs from what was pushed.
OnlyDataEdited(k) ==
    /\ BuiltOnSealed
    /\ At(chain, k).data # At(sealed, k).data
    /\ chain = [ sealed EXCEPT ![k + 1].data = At(chain, k).data ]

\* Block k's previousHash, and nothing else in the chain, differs from what
\* was pushed.
OnlyPreviousHashOverwritten(k) ==
    /\ BuiltOnSealed
    /\ At(chain, k).previousHash # At(sealed, k).previousHash
    /\ chain = [ sealed EXCEPT ![k + 1].previousHash = At(chain, k).previousHash ]

\* C1: on a chain built by createGenesisBlock and completed addBlock calls,
\* with every block as it was pushed, isChainValid returns {valid: true}.
C1_UntamperedChainIsValid ==
    (CleanReturn /\ Untampered) => returned[1].verdict = VALID

\* C1's case: the validate handler's sweep of an untampered chain of three
\* blocks has just returned.
C1_Witness ==
    /\ CleanReturn /\ Untampered
    /\ Len(chain) >= 3
    /\ returned[1].caller = "validateBtn"
    /\ returned[1].verdict = VALID

\* C2: when only the data of one block k >= 1 differs from what was pushed,
\* isChainValid returns exactly {valid: false, index: k, reason: TAMPERED_DATA}.
C2_DataEditIsReportedAtItsIndex ==
    \A k \in Positions :
        (k >= 1 /\ CleanReturn /\ OnlyDataEdited(k))
            => returned[1].verdict = TAMPERED_DATA(k)

\* C2's case: block 2 of a three-block chain was edited, block 1 was not, and
\* the validate handler's sweep has just returned.
C2_Witness ==
    /\ Len(chain) >= 3
    /\ CleanReturn /\ OnlyDataEdited(2)
    /\ returned[1].caller = "validateBtn"
    /\ returned[1].verdict = TAMPERED_DATA(2)

\* C3 as the specification states it: when only the previousHash of one block
\* k >= 1 was overwritten, isChainValid returns {valid: false, index: k,
\* reason: BROKEN_LINK}.
C3_AsStated ==
    \A k \in Positions :
        (k >= 1 /\ CleanReturn /\ OnlyPreviousHashOverwritten(k))
            => returned[1].verdict = BROKEN_LINK(k)

\* C3, amended: when only the previousHash of one block k >= 1 was
\* overwritten, isChainValid returns {valid: false, index: k, reason:
\* TAMPERED_DATA}: previousHash is part of the hashed string, so the first
\* check of the loop body fails before the link is compared.
C3_PreviousHashOverwriteIsTamperedData ==
    \A k \in Positions :
        (k >= 1 /\ CleanReturn /\ OnlyPreviousHashOverwritten(k))
            => returned[1].verdict = TAMPERED_DATA(k)

\* C3's case: only block 2's previousHash was overwritten and the validate
\* handler's sweep has just returned.
C3_Witness ==
    /\ Len(chain) >= 3
    /\ CleanReturn /\ OnlyPreviousHashOverwritten(2)
    /\ At(chain, 2).previousHash # At(chain, 1).hash
    /\ returned[1].caller = "validateBtn"
    /\ returned[1].verdict = TAMPERED_DATA(2)

\* C4: every block mineBlock has returned has a stored hash equal to
\* calculateHash() of its fields with `difficulty` leading '0' characters, and
\* so has every block of the chain whose data is what it was when pushed.
C4_SealedHashIsSound ==
    \A k \in Positions :
        /\ At(sealed, k).hash = calculateHash(At(sealed, k))
        /\ LeadingZeros(At(sealed, k).hash, difficulty)
        /\ At(chain, k).data = At(sealed, k).data
             => /\ At(chain, k).hash = calculateHash(At(chain, k))
                /\ LeadingZeros(At(chain, k).hash, difficulty)

\* C4's case: three blocks were mined, each at a nonce above 0, block 1 was
\* edited since and block 2 was not.
C4_Witness ==
    /\ Len(chain) >= 3
    /\ \A k \in 0..2 : At(sealed, k).nonce > 0
    /\ At(chain, 1).data # At(sealed, 1).data
    /\ At(chain, 2).data = At(sealed, 2).data

C5_ChainHoldsOnlyMinedBlocks ==
    /\ \A k \in Positions :
          /\ At(chain, k).hash # << >>
          /\ LeadingZeros(At(chain, k).hash, difficulty)
    /\ genesisPc = "mining" => chain = << >>
    /\ addPc = "mining" =>
          \A k \in Positions : At(chain, k).index # newBlock[1].index

C5_MinedBlocksKeepNonce ==
    \A k \in Positions :
        /\ At(chain', k).nonce = At(chain, k).nonce
        /\ At(chain', k).hash = At(chain, k).hash

\* C5: in every state, every block of the chain has a non-empty hash with
\* `difficulty` leading '0' characters, and the block being mined (the genesis
\* block, or the click handler's new block) is none of the chain's blocks; no
\* step changes the nonce or the hash of a block of the chain.
C5_NoPartiallyMinedBlockInChain ==
    [] C5_ChainHoldsOnlyMinedBlocks /\ [][C5_MinedBlocksKeepNonce]_vars

\* C5's case: a block is being mined, its nonce has moved and its hash is a
\* failed candidate, while the chain holds two blocks.
C5_Witness ==
    /\ addPc = "mining"
    /\ Len(chain) = 2
    /\ newBlock[1].nonce > 0
    /\ newBlock[1].hash # << >>
    /\ ~LeadingZeros(newBlock[1].hash, difficulty)

\* C6: in every state chain[i].index = i for every position i of the chain.
C6_IndexIsPosition ==
    \A k \in Positions : At(chain, k).index = k

\* C6's case: three blocks, one of them edited, a validation under way.
C6_Witness ==
    /\ Len(chain) >= 3
    /\ ~Untampered
    /\ sweeps # EmptyBag
    /\ At(chain, 2).index = 2

\* The cards the renderChain call that has just returned drew: a card for
\* every block and a link between two cards, at the end of the container.
LastDrawn ==
    SubSeq(container, Len(container) + 2 - 2 * Len(chain), Len(container))

\* C7 as the README states it: when only the data of one block k (0 <= k)
\* differs from what was pushed, isChainValid reports the chain invalid and
\* the cards renderChain draws for the blocks after k are all 'invalid'.
C7_AsStated ==
    \A k \in Positions :
        (CleanReturn /\ OnlyDataEdited(k))
            => /\ ~returned[1].verdict.valid
               /\ returned[1].caller = "renderChain" =>
                    \A j \in DOMAIN LastDrawn :
                        (LastDrawn[j].className = "block-card"
                            /\ LastDrawn[j].idx > k)
                        => LastDrawn[j].statusClass = "invalid"

\* C8 as the specification states it: getLatestBlock and addBlock on an empty
\* chain both fail, no mining starts, and the chain and the block handed to
\* addBlock are left as they were.
C8_AsStated ==
    (latest # << >> /\ chain = << >>)
        => /\ latest[1].completion = "throw"
           /\ addPc = "threw"
           /\ uncaught # << >>
           /\ newBlock[1].previousHash = << >>
           /\ newBlock[1].nonce = 0
           /\ newBlock[1].hash = << >>

C9_VerdictOrWaiting ==
    /\ returned # << >> =>
          \/ returned[1].verdict = VALID
          \/ \E k \in Positions :
                /\ k >= 1
                /\ returned[1].verdict \in { TAMPERED_DATA(k), BROKEN_LINK(k) }
    /\ (returned # << >> /\ Len(chain) <= 1) => returned[1].verdict = VALID
    /\ \A sw \in BagToSet(sweeps) : 1 <= sw.i /\ sw.i < Len(chain)

C9_SweepWritesNothing ==
    (ValidateClick \/ \E sw \in BagToSet(sweeps) : SweepDigest(sw))
        => UNCHANGED << chain, difficulty, genesis, newBlock >>

\* C9: isChainValid never fails.  What it returns is a verdict; on an empty
\* chain and on a chain of the genesis block alone it returns {valid: true}
\* without waiting; a sweep that waits for a digest is at a position 1 <= i <
\* chain.length, so the blocks it reads exist; no step of a sweep writes a
\* field of the ledger or of a block; and while sweeps are waiting, one of
\* them returns again and again (no sweep loops for ever).
C9_ValidateNeverFails ==
    /\ [] C9_VerdictOrWaiting
    /\ [][C9_SweepWritesNothing]_vars
    /\ []<>(sweeps = EmptyBag \/ returned # << >>)

\* C9's case: a sweep started while a block was being mined returns its
\* verdict on an edited chain, the block still being mined.
C9_Witness ==
    /\ returned # << >>
    /\ returned[1].caller = "validateBtn"
    /\ returned[1].dirty
    /\ addPc = "mining"
    /\ ~Untampered

\* The stored hash of block k is not the hash of its fields.
HashDiffers(k) == At(chain, k).hash # calculateHash(At(chain, k))

\* Block k's previousHash is not the stored hash of block k - 1.
LinkDiffers(k) == At(chain, k).previousHash # At(chain, k - 1).hash

Failing == { k \in Positions : k >= 1 /\ (HashDiffers(k) \/ LinkDiffers(k)) }

\* C10: an invalid verdict of a sweep during which no field was written
\* carries the least index i >= 1 at which the hash or the link differs, with
\* reason TAMPERED_DATA when the hash differs there (also when the link
\* differs too) and BROKEN_LINK only when the hash does not.
C10_FirstFailureHashBeforeLink ==
    (CleanReturn /\ ~returned[1].verdict.valid)
        => /\ Failing # { }
           /\ \A k \in Failing : returned[1].verdict.index <= k
           /\ returned[1].verdict.index \in Failing
           /\ returned[1].verdict.reason =
                 IF HashDiffers(returned[1].verdict.index)
                 THEN "TAMPERED_DATA" ELSE "BROKEN_LINK"

\* C10's case: at the least failing index, 2, both the hash and the link
\* differ, and the sweep has just returned TAMPERED_DATA.
C10_Witness ==
    /\ CleanReturn
    /\ returned[1].verdict = TAMPERED_DATA(2)
    /\ HashDiffers(2) /\ LinkDiffers(2)
    /\ ~HashDiffers(1) /\ ~LinkDiffers(1)

\* A block without its data: index, timestamp, previousHash, nonce and hash.
Frame(b) == [ b EXCEPT !.data = << >> ]

\* A step keeps every block of the chain at its position with its index,
\* timestamp, previousHash, nonce and hash, and adds at most one block at the
\* end; a step that writes the data of a block is a step of updateBlockData.
C11_ChainOnlyGrows ==
    /\ Len(chain') \in { Len(chain), Len(chain) + 1 }
    /\ \A k \in Positions : Frame(At(chain', k)) = Frame(At(chain, k))
    /\ \/ \A k \in Positions : At(chain', k) = At(chain, k)
       \/ \E index \in Positions, newVal \in Typed :
              UpdateBlockData(index, newVal)

\* updateBlockData(index, newVal) writes chain[index].data = newVal and no
\* other field of any block.
C11_EditWritesOnlyData ==
    \A index \in Positions, newVal \in Typed :
        UpdateBlockData(index, newVal)
            => chain' = [ chain EXCEPT ![index + 1].data = newVal ]

\* C11: the chain is append-only.  Every step leaves the blocks of the chain
\* in place, with their index, timestamp, previousHash, nonce and hash, and
\* appends at most one block; updateBlockData(k, v) writes chain[k].data = v
\* and nothing else: it neither seals the block again nor refuses the edit.
C11_AppendOnly ==
    [][C11_ChainOnlyGrows /\ C11_EditWritesOnlyData]_vars

\* C11's case: three blocks were appended and block 1 was edited since; its
\* other fields are what they were when it was pushed.
C11_Witness ==
    /\ Len(chain) = 3
    /\ addPc = "idle"
    /\ At(chain, 1).data # At(sealed, 1).data
    /\ Frame(At(chain, 1)) = Frame(At(sealed, 1))

\* The positions i >= 1 whose data is not what it was when the block was
\* pushed.
Edited == { k \in Positions : k >= 1 /\ At(chain, k).data # At(sealed, k).data }

Least(S) == CHOOSE k \in S : \A j \in S : k <= j

C12_VerdictIsLeastEdited ==
    (CleanReturn /\ Edited # { })
        => returned[1].verdict = TAMPERED_DATA(Least(Edited))

\* An addBlock under way on an edited chain has not failed, and its next
\* digest can come back (when the block is sealed renderChain starts a sweep,
\* for which there is room).
C12_AppendGoesOn ==
    (addPc = "mining" /\ Edited # { })
        => /\ uncaught = << >>
           /\ BagCardinality(sweeps) < MaxSweeps => ENABLED AddDigest

C12_AppendsOnTheTip ==
    /\ (Len(chain) >= 1 /\ addPc = "idle" /\ addPc' = "mining")
          => newBlock'[1].previousHash = chain[Len(chain)].hash
    /\ (Len(chain) >= 1 /\ Len(chain') = Len(chain) + 1)
          => chain'[Len(chain')].previousHash = chain[Len(chain)].hash

\* C12: appending on top of an edited chain works.  While the data of some
\* block k >= 1 is not what was pushed, an addBlock under way goes on as on
\* any chain; the previousHash a new block gets, and has when it is pushed, is
\* the stored hash of the tip; and what isChainValid returns is {valid: false,
\* index: k, reason: TAMPERED_DATA} for the least such k.
C12_AppendOnEditedChain ==
    /\ [] (C12_VerdictIsLeastEdited /\ C12_AppendGoesOn)
    /\ [][C12_AppendsOnTheTip]_vars

\* C12's case: block 1 was edited, a block was appended on top and was not
\* edited, and the validate handler's sweep has just returned.
C12_Witness ==
    /\ Len(chain) = 3
    /\ Edited = { 1 }
    /\ CleanReturn
    /\ returned[1].caller = "validateBtn"
    /\ returned[1].verdict = TAMPERED_DATA(1)

\* At most one mineBlock call is under way; the block being mined by addBlock
\* has the index after the tip's and the tip's stored hash as its
\* previousHash, and the tip is a sealed block of the chain.
C13_OneMinerOnTheSealedTip ==
    /\ ~(genesisPc = "mining" /\ addPc = "mining")
    /\ addPc = "mining" =>
          /\ genesisPc = "done"
          /\ Len(chain) >= 1
          /\ newBlock[1].index = Len(chain)
          /\ chain[Len(chain)].index = newBlock[1].index - 1
          /\ chain[Len(chain)].hash = calculateHash(At(sealed, Len(chain) - 1))
          /\ LeadingZeros(chain[Len(chain)].hash, difficulty)
          /\ newBlock[1].previousHash = chain[Len(chain)].hash

\* The hash of a block of the chain is final, and the block being mined keeps
\* its previousHash; a block joins the chain only from the one mineBlock call
\* under way.
C13_TipHashIsFinal ==
    /\ \A k \in Positions : At(chain', k).hash = At(chain, k).hash
    /\ (addPc = "mining" /\ addPc' = "mining")
          => newBlock'[1].previousHash = newBlock[1].previousHash
    /\ Len(chain') > Len(chain) => (genesisPc = "mining" \/ addPc = "mining")

\* C13: under every interleaving of window.onload, add-block clicks, validate
\* clicks and data edits at most one block is being mined, and block i + 1 is
\* mined only once block i is sealed and in the chain, with block i's final
\* hash as its previousHash.
C13_MiningIsSerial ==
    [] C13_OneMinerOnTheSealedTip /\ [][C13_TipHashIsFinal]_vars

\* C13's case: block 2 is being mined on top of a block 1 that was edited
\* after it was pushed, while a sweep is waiting.
C13_Witness ==
    /\ addPc = "mining"
    /\ Len(chain) = 2
    /\ newBlock[1].nonce > 0
    /\ Edited = { 1 }
    /\ sweeps # EmptyBag

\* C14 as the specification states it: while mineBlock is under way on a
\* block, before a candidate is accepted, the block's stored hash is empty.
C14_AsStated ==
    /\ genesisPc = "mining" => genesis[1].hash = << >>
    /\ addPc = "mining" => newBlock[1].hash = << >>

\* C17: in every state the page can reach, chain[i].previousHash is
\* chain[i - 1].hash for every i >= 1, whatever was edited, and no isChainValid
\* call returns reason BROKEN_LINK (also one that ran while data was edited).
C17_LinksAlwaysHold ==
    /\ \A k \in Positions : k >= 1 => ~LinkDiffers(k)
    /\ (returned # << >> /\ ~returned[1].verdict.valid)
          => returned[1].verdict.reason # "BROKEN_LINK"

\* C17's case: blocks 1 and 2 were both edited, an edit was made while the
\* sweep was under way, and the sweep has just returned an invalid verdict.
C17_Witness ==
    /\ Len(chain) = 3
    /\ Edited = { 1, 2 }
    /\ returned # << >>
    /\ returned[1].dirty
    /\ ~returned[1].verdict.valid
    /\ ~LinkDiffers(1) /\ ~LinkDiffers(2)

\* C18 as stated: whenever isChainValid returns {valid: true}, also after
\* updateBlockData ran between its awaits, every block i >= 1 of the chain at
\* that moment has a stored hash equal to the hash of its fields.
C18_AsStated ==
    (returned # << >> /\ returned[1].verdict = VALID)
        => \A k \in Positions : k >= 1 => ~HashDiffers(k)

\* C19 as stated: the add-block button is disabled only while the append of
\* its click is under way, also after a click that arrived while the genesis
\* block was being mined: once the genesis block is in the chain, whenever the
\* button is disabled a block is being mined by addBlock (and the button is
\* enabled again when that block is pushed).
C19_AsStated ==
    (genesisPc = "done" /\ addBtnDisabled) => addPc = "mining"

\* No renderChain call is waiting for its isChainValid.
NoRenderInProgress ==
    \A sw \in BagToSet(sweeps) : sw.caller # "renderChain"

\* The block cards of the container, in order.
Cards == SelectSeq(container, LAMBDA c : c.className = "block-card")

\* C20 as stated: once the genesis block is drawn, whenever no renderChain call
\* is in progress the container holds exactly one card for every block of the
\* chain, in chain order.
C20_AsStated ==
    (genesisPc = "done" /\ NoRenderInProgress)
        => /\ Len(Cards) = Len(chain)
           /\ \A j \in DOMAIN Cards : Cards[j].idx = j - 1

\* The candidate hash of the mined block at nonce n.
CandidateAt(n) == calculateHash([ miner[1].block EXCEPT !.nonce = n ])

\* The nonces below the mined block's nonce.
Tried == { n \in 0..MaxNonce : n < miner[1].block.nonce }

\* C15: mineBlock starts at nonce 0; every candidate that fails raises the
\* nonce by exactly 1; the block is sealed at the least nonce n whose hash has
\* `difficulty` leading '0' characters, with that hash stored, after exactly
\* n + 1 candidates; at difficulty 0 that is nonce 0 and the first candidate.
C15_SealsAtLeastNonce ==
    LET c == miner[1] IN
    /\ c.candidates = 0 => (c.block.nonce = 0 /\ c.pc = "mining")
    /\ \A n \in Tried : ~LeadingZeros(CandidateAt(n), c.difficulty)
    /\ c.pc = "mining" => c.candidates = c.block.nonce
    /\ c.pc = "sealed" =>
          /\ c.candidates = c.block.nonce + 1
          /\ c.block.hash = CandidateAt(c.block.nonce)
          /\ LeadingZeros(c.block.hash, c.difficulty)
    /\ (c.difficulty = 0 /\ c.candidates > 0) =>
          (c.pc = "sealed" /\ c.block.nonce = 0 /\ c.candidates = 1)

\* C15's case: a block sealed at nonce 2 after three candidates, and not at
\* difficulty 0.
C15_Witness ==
    /\ miner[1].pc = "sealed"
    /\ miner[1].difficulty = 4
    /\ miner[1].block.nonce = 2
    /\ miner[1].candidates = 3

\* The calls of onIteration are the positive multiples of 100 the nonce has
\* reached, one call each, in order (none when no callback was passed).
CalledAtEveryHundred ==
    LET c == miner[1] IN
    /\ Len(c.calls) = IF c.onIteration THEN c.block.nonce \div 100 ELSE 0
    /\ \A j \in DOMAIN c.calls : c.calls[j].nonce = 100 * j

\* C16 as stated: onIteration is called once for every positive multiple of
\* 100 the nonce reaches and at no other time, with the nonce and with the
\* hash computed for that nonce, which does not meet the target.
C16_AsStated ==
    /\ CalledAtEveryHundred
    /\ \A j \in DOMAIN miner[1].calls :
          /\ miner[1].calls[j].hash = CandidateAt(miner[1].calls[j].nonce)
          /\ ~LeadingZeros(miner[1].calls[j].hash, miner[1].difficulty)

\* C16, amended: onIteration is called once for every positive multiple of
\* 100 the nonce reaches and at no other time, with the nonce and with the
\* stored hash, which is the failed candidate of the nonce before it (the
\* hash of the reported nonce has not been computed yet).
C16_CallbackCarriesLastFailedCandidate ==
    /\ CalledAtEveryHundred
    /\ \A j \in DOMAIN miner[1].calls :
          /\ miner[1].calls[j].hash = CandidateAt(miner[1].calls[j].nonce - 1)
          /\ miner[1].calls[j].hash # CandidateAt(miner[1].calls[j].nonce)
          /\ ~LeadingZeros(miner[1].calls[j].hash, miner[1].difficulty)

\* C16's case: the nonce has passed 200 and onIteration was called twice.
C16_Witness ==
    /\ miner[1].onIteration
    /\ miner[1].block.nonce > 200
    /\ Len(miner[1].calls) = 2
    /\ miner[1].calls[2].nonce = 200

====
